---- MODULE Spec2Model ----
(***************************************************************************)
(* A model of the directory lister of this repository: src/src/ls.c (the   *)
(* current program) and src/src/ls-v1.1.0.c (its earlier version).         *)
(*                                                                         *)
(* Names and paths are sequences of character codes, so that strlen is     *)
(* Len, strcmp is the byte-wise lexicographic order and the hidden-file    *)
(* test reads the first character.  A st_mode is a 16-bit integer whose    *)
(* bits are read arithmetically.  Output is a sequence of lines.           *)
(***************************************************************************)
EXTENDS Integers, Sequences, FiniteSets

VARIABLES
    \* permission encoder
    pmode,      \* the mode_t handed to build_perm_string
    pout,       \* [ver, s]: which build_perm_string ran and the buffer it left
    \* long-format timestamp
    tnow,       \* time(NULL)
    tmtime,     \* st_mtime of the entry
    tdec,       \* whether localtime() decodes st_mtime
    tout,       \* [ver, fmt]: which print_long_listing ran and the time text chosen
    \* one directory listing (read, sort, render)
    ver,        \* "ls" (src/ls.c) or "v110" (src/ls-v1.1.0.c)
    children,   \* what readdir will return, in readdir order
    pos,        \* number of readdir calls that returned a child
    arr,        \* arr[0 .. count-1]
    cap,        \* allocated slots of arr
    lpc,        \* "read" | "done"
    lmode,      \* 0 columns, 1 long, 2 across
    ltermw,     \* terminal width the renderer used
    lnow,       \* time(NULL) the renderer used
    lout,       \* lines written to stdout
    lerr,       \* perror() reports written to stderr
    \* the whole program: main, list_dir and its recursion
    unopen,     \* the directories opendir fails on
    nolstat,    \* the names lstat fails on
    args,       \* argv[optind ..]
    wmode,      \* 0 columns, 1 long (-l), 2 across (-x)
    recursive,  \* -R
    wtermw,     \* what the terminal-width query answers
    ti,         \* how many targets main has handed to list_dir
    stack,      \* the list_dir calls in progress, innermost last: [path, arr, i]
    visited,    \* every list_dir call so far: [ti, path]
    out,        \* stdout: [ti, dir, line], dir the path of the list_dir call
                \* that wrote the line (<<>> for main)
    err,        \* stderr: the paths perror reported
    wpc,        \* "main" | "done"
    steps       \* how many steps the program has taken

permVars == <<pmode, pout>>
timeVars == <<tnow, tmtime, tdec, tout>>
listVars == <<ver, children, pos, arr, cap, lpc, lmode, ltermw, lnow, lout, lerr>>
walkVars == <<unopen, nolstat, args, wmode, recursive, wtermw, ti, stack, visited,
              out, err, wpc, steps>>
vars     == <<permVars, timeVars, listVars, walkVars>>

-----------------------------------------------------------------------------
(* Generic helpers *)

Max(a, b) == IF a >= b THEN a ELSE b

Range(s) == {s[i] : i \in 1..Len(s)}

RECURSIVE SumSeq(_)
SumSeq(s) == IF s = <<>> THEN 0 ELSE Head(s) + SumSeq(Tail(s))

RECURSIVE Flatten(_)
Flatten(ss) == IF ss = <<>> THEN <<>> ELSE Head(ss) \o Flatten(Tail(ss))

\* the sequences of length <= n of pairwise different elements of S
RECURSIVE DistinctSeqs(_, _)
DistinctSeqs(S, n) ==
    IF n = 0 THEN {<<>>}
    ELSE LET shorter == DistinctSeqs(S, n - 1)
         IN  shorter \cup
             {Append(p[1], p[2]) :
                 p \in {q \in shorter \X S : Len(q[1]) = n - 1 /\ q[2] \notin Range(q[1])}}

-----------------------------------------------------------------------------
(* st_mode bits (sys/stat.h), as the sources test them *)

S_IFSOCK == 49152
S_IFLNK  == 40960
S_IFREG  == 32768
S_IFBLK  == 24576
S_IFDIR  == 16384
S_IFCHR  == 8192
S_IFIFO  == 4096
S_ISUID  == 2048
S_ISGID  == 1024
S_ISVTX  == 512
S_IRUSR  == 256
S_IWUSR  == 128
S_IXUSR  == 64
S_IRGRP  == 32
S_IWGRP  == 16
S_IXGRP  == 8
S_IROTH  == 4
S_IWOTH  == 2
S_IXOTH  == 1

\* m & bit, for a single-bit mask
Has(m, bit) == (m \div bit) % 2 = 1

\* m & S_IFMT
FileType(m) == ((m \div S_IFIFO) % 16) * S_IFIFO

S_ISDIR(m)  == FileType(m) = S_IFDIR
S_ISLNK(m)  == FileType(m) = S_IFLNK
S_ISCHR(m)  == FileType(m) = S_IFCHR
S_ISBLK(m)  == FileType(m) = S_IFBLK
S_ISFIFO(m) == FileType(m) = S_IFIFO
S_ISSOCK(m) == FileType(m) = S_IFSOCK

-----------------------------------------------------------------------------
(* Permission encoder *)

TypeGlyph(m) ==
    IF S_ISDIR(m) THEN "d"
    ELSE IF S_ISLNK(m) THEN "l"
    ELSE IF S_ISCHR(m) THEN "c"
    ELSE IF S_ISBLK(m) THEN "b"
    ELSE IF S_ISFIFO(m) THEN "p"
    ELSE IF S_ISSOCK(m) THEN "s"
    ELSE "-"

\* src/ls.c: the buffer starts as "----------" and a set bit overwrites its slot
build_perm_string(m) ==
    << TypeGlyph(m),
       IF Has(m, S_IRUSR) THEN "r" ELSE "-",
       IF Has(m, S_IWUSR) THEN "w" ELSE "-",
       IF Has(m, S_IXUSR) THEN "x" ELSE "-",
       IF Has(m, S_IRGRP) THEN "r" ELSE "-",
       IF Has(m, S_IWGRP) THEN "w" ELSE "-",
       IF Has(m, S_IXGRP) THEN "x" ELSE "-",
       IF Has(m, S_IROTH) THEN "r" ELSE "-",
       IF Has(m, S_IWOTH) THEN "w" ELSE "-",
       IF Has(m, S_IXOTH) THEN "x" ELSE "-" >>

\* the execute slot of src/ls-v1.1.0.c, combined with a special bit
ExecSlot(m, special, exec, lower, upper) ==
    IF Has(m, special)
    THEN (IF Has(m, exec) THEN lower ELSE upper)
    ELSE (IF Has(m, exec) THEN "x" ELSE "-")

\* src/ls-v1.1.0.c
build_perm_string_v110(m) ==
    << TypeGlyph(m),
       IF Has(m, S_IRUSR) THEN "r" ELSE "-",
       IF Has(m, S_IWUSR) THEN "w" ELSE "-",
       ExecSlot(m, S_ISUID, S_IXUSR, "s", "S"),
       IF Has(m, S_IRGRP) THEN "r" ELSE "-",
       IF Has(m, S_IWGRP) THEN "w" ELSE "-",
       ExecSlot(m, S_ISGID, S_IXGRP, "s", "S"),
       IF Has(m, S_IROTH) THEN "r" ELSE "-",
       IF Has(m, S_IWOTH) THEN "w" ELSE "-",
       ExecSlot(m, S_ISVTX, S_IXOTH, "t", "T") >>

\* the file types a mode can carry: the seven of sys/stat.h and none of them
FileTypes == {0, S_IFIFO, S_IFCHR, S_IFDIR, S_IFBLK, S_IFREG, S_IFLNK, S_IFSOCK}

\* every mode: a file type plus the twelve permission and special bits
Modes == {t + b : t \in FileTypes, b \in 0 .. (S_IFIFO - 1)}

NoPerm == [ver |-> "none", s |-> <<>>]

PermInit == pmode \in Modes /\ pout = NoPerm
PermIdle == pmode = 0 /\ pout = NoPerm

\* src/ls.c print_long_listing calls build_perm_string on the entry's mode
BuildPermLs ==
    /\ pout.ver = "none"
    /\ pout' = [ver |-> "ls", s |-> build_perm_string(pmode)]
    /\ UNCHANGED pmode

\* src/ls-v1.1.0.c print_long_listing does the same with its own encoder
BuildPermV110 ==
    /\ pout.ver = "none"
    /\ pout' = [ver |-> "v110", s |-> build_perm_string_v110(pmode)]
    /\ UNCHANGED pmode

-----------------------------------------------------------------------------
(* Long-format timestamp *)

six_months == 60 * 60 * 24 * 30 * 6

FmtTime        == "%b %e %H:%M"
FmtYear        == "%b %e  %Y"
FmtPlaceholder == "??? ?? ??:??"

\* src/ls.c: the text print_long_listing puts in timebuf
TimeText(mtime, now, decodes) ==
    IF decodes THEN FmtTime ELSE FmtPlaceholder

\* src/ls-v1.1.0.c: the same, with the six-month rule
TimeText_v110(mtime, now, decodes) ==
    IF ~decodes THEN FmtPlaceholder
    ELSE IF (now - mtime) > six_months \/ (mtime - now) > six_months
         THEN FmtYear
         ELSE FmtTime

\* how many "now" instants the model tries
MaxNow == 4

OneMonth    == 30 * 24 * 3600
SevenMonths == 7 * OneMonth

\* ages of an entry relative to now: around the threshold, and the spec's cases
Ages == { -SevenMonths, -(six_months + 1), -six_months, -OneMonth, 0,
          OneMonth, six_months, six_months + 1, SevenMonths }

NoTime == [ver |-> "none", fmt |-> ""]

TimeInit ==
    /\ tnow \in {k * six_months + k : k \in 1..MaxNow}
    /\ tmtime \in {tnow - a : a \in Ages}
    /\ tdec \in BOOLEAN
    /\ tout = NoTime

TimeIdle == tnow = 0 /\ tmtime = 0 /\ tdec = TRUE /\ tout = NoTime

FormatTimeLs ==
    /\ tout.ver = "none"
    /\ tout' = [ver |-> "ls", fmt |-> TimeText(tmtime, tnow, tdec)]
    /\ UNCHANGED <<tnow, tmtime, tdec>>

FormatTimeV110 ==
    /\ tout.ver = "none"
    /\ tout' = [ver |-> "v110", fmt |-> TimeText_v110(tmtime, tnow, tdec)]
    /\ UNCHANGED <<tnow, tmtime, tdec>>

-----------------------------------------------------------------------------
(* Names, strcmp and qsort *)

DOT   == 46
SLASH == 47

\* strcmp(a, b) < 0: byte-wise, a proper prefix sorting first
RECURSIVE StrLess(_, _)
StrLess(a, b) ==
    IF b = <<>> THEN FALSE
    ELSE IF a = <<>> THEN TRUE
    ELSE IF Head(a) # Head(b) THEN Head(a) < Head(b)
    ELSE StrLess(Tail(a), Tail(b))

\* cmp_entries(ea, eb) < 0
cmp_entries(ea, eb) == StrLess(ea.name, eb.name)

RECURSIVE InsertSorted(_, _)
InsertSorted(e, s) ==
    IF s = <<>> THEN <<e>>
    ELSE IF cmp_entries(e, Head(s)) THEN <<e>> \o s
    ELSE <<Head(s)>> \o InsertSorted(e, Tail(s))

\* qsort(arr, count, sizeof(entry_t), cmp_entries); names in one directory differ
RECURSIVE qsort(_)
qsort(s) == IF s = <<>> THEN <<>> ELSE InsertSorted(Head(s), qsort(Tail(s)))

\* snprintf(fullpath, ..., "%s/%s", path, name)
FullPath(path, name) == path \o <<SLASH>> \o name

-----------------------------------------------------------------------------
(* The metadata reader *)

\* size_t cap = 64 (src/ls.c), size_t capacity = 64 (src/ls-v1.1.0.c)
InitCap == 64

\* A child of a directory, as readdir, lstat and readlink answer for it:
\*   name    d_name
\*   ok      lstat(fullpath) succeeds
\*   st      what lstat stores when it succeeds
\*   rl      readlink(fullpath) succeeds (asked of symlinks only)
\*   target  the text readlink stores when it succeeds
\*   node    the directory the child is, or resolves to; "" when it is none
NoStat == [mode |-> 0, nlink |-> 0, uid |-> 0, gid |-> 0, size |-> 0, mtime |-> 0]

\* dp->d_name[0] == '.'
IsHidden(name) == name # <<>> /\ name[1] = DOT

\* MakeEntry with a slip: the entry's is_link flag is left at its initial 0
MakeEntry_flag_unset(de) ==
    [name        |-> de.name,
     st          |-> de.st,
     is_link     |-> FALSE,
     link_target |-> IF S_ISLNK(de.st.mode) /\ de.rl THEN de.target ELSE <<>>]

\* the entry both readers build from a child whose lstat succeeded
MakeEntry(de) ==
    LET link == S_ISLNK(de.st.mode)
    IN  [name        |-> de.name,
         st          |-> de.st,
         is_link     |-> link,
         link_target |-> IF link /\ de.rl THEN de.target ELSE <<>>]

\* src/ls-v1.1.0.c: lstat failed, the fields the printer reads are zeroed
ZeroEntry(de) ==
    [name |-> de.name, st |-> NoStat, is_link |-> FALSE, link_target |-> <<>>]

\* if (count == cap) { cap *= 2; realloc } of src/ls.c
Grow(count, capacity) == IF count = capacity THEN capacity * 2 ELSE capacity

\* if (count >= capacity) { capacity *= 2; realloc } of src/ls-v1.1.0.c
Grow_v110(count, capacity) == IF count >= capacity THEN capacity * 2 ELSE capacity

\* read_dir_step with a slip: the continue after a failed lstat is missing, so
\* the slot is counted with whatever lstat left in it
read_dir_step_no_continue(r, de, path) ==
    IF IsHidden(de.name) THEN r
    ELSE [arr |-> Append(r.arr, IF de.ok THEN MakeEntry(de) ELSE ZeroEntry(de)),
          cap |-> Grow(Len(r.arr), r.cap),
          err |-> IF de.ok THEN r.err ELSE Append(r.err, FullPath(path, de.name))]

\* read_dir_step with a slip: a failed lstat is handled like a failed strdup,
\* the names gathered so far are freed and the array starts over
read_dir_step_drop_all(r, de, path) ==
    IF IsHidden(de.name) THEN r
    ELSE IF ~de.ok
         THEN [arr |-> <<>>, cap |-> Grow(Len(r.arr), r.cap),
               err |-> Append(r.err, FullPath(path, de.name))]
         ELSE [arr |-> Append(r.arr, MakeEntry(de)), cap |-> Grow(Len(r.arr), r.cap),
               err |-> r.err]

\* One pass of the readdir loop of read_dir_entries (src/ls.c) over child de of
\* directory path.  r = [arr, cap, err]; count is Len(r.arr).
read_dir_step(r, de, path) ==
    IF IsHidden(de.name) THEN r
    ELSE LET grown == Grow(Len(r.arr), r.cap)
         IN  IF ~de.ok
             THEN [arr |-> r.arr, cap |-> grown,
                   err |-> Append(r.err, FullPath(path, de.name))]
             ELSE [arr |-> Append(r.arr, MakeEntry(de)), cap |-> grown,
                   err |-> r.err]

\* One pass of the readdir loop of collect_directory (src/ls-v1.1.0.c)
collect_step(r, de, path) ==
    IF IsHidden(de.name) THEN r
    ELSE [arr |-> Append(r.arr, IF de.ok THEN MakeEntry(de) ELSE ZeroEntry(de)),
          cap |-> Grow_v110(Len(r.arr), r.cap),
          err |-> r.err]

ReadStep(v, r, de, path) ==
    IF v = "ls" THEN read_dir_step(r, de, path) ELSE collect_step(r, de, path)

\* the whole readdir loop, from an empty array
RECURSIVE ReadLoop(_, _, _, _)
ReadLoop(v, r, des, path) ==
    IF des = <<>> THEN r
    ELSE ReadLoop(v, ReadStep(v, r, Head(des), path), Tail(des), path)

-----------------------------------------------------------------------------
(* The renderers.  A line of output is one of                               *)
(*   [k |-> "row", cells]  a line of name cells, each [name, pad, col]:     *)
(*                         the name, the spaces after it, its column        *)
(*   [k |-> "long", ...]   a long-format line                               *)
(*   [k |-> "header", path] "<path>:"                                       *)
(*   [k |-> "blank"]       an empty line                                    *)

\* size_t term_width = 80
TermDefault == 80

RowLine(cells) == [k |-> "row", cells |-> cells]
BlankLine      == [k |-> "blank"]
HeaderLine(path) == [k |-> "header", path |-> path]

\* the max_len loop of print_columns and print_horizontal
RECURSIVE MaxNameLen(_)
MaxNameLen(ents) ==
    IF ents = <<>> THEN 0
    ELSE Max(Len(Head(ents).name), MaxNameLen(Tail(ents)))

\* size_t col_width = max_len + 2
ColWidth(ents) == MaxNameLen(ents) + 2

\* cols = term_width / col_width; if (cols < 1) cols = 1
ColumnCount(term_width, col_width) ==
    LET cols == term_width \div (IF col_width = 0 THEN 1 ELSE col_width)
    IN  IF cols < 1 THEN 1 ELSE cols

\* RowCount with a slip: the division rounds down
RowCount_floor(count, cols) == count \div cols

\* rows = (count + cols - 1) / cols
RowCount(count, cols) == (count + cols - 1) \div cols

\* idx = c * rows + r
CellIndex(c, rows, r) == c * rows + r

\* pad = col_width - strlen(n); if (pad < 0) pad = 0
ColumnPad(col_width, len) == Max(col_width - len, 0)

\* the inner loop of print_columns for row r: the columns whose index is in range
ColumnsRow(ents, rows, cols, col_width, r) ==
    LET count == Len(ents)
        cs    == SelectSeq([j \in 1..cols |-> j - 1],
                           LAMBDA c : CellIndex(c, rows, r) < count)
    IN  RowLine([j \in 1..Len(cs) |->
                  LET e == ents[CellIndex(cs[j], rows, r) + 1]
                  IN  [name |-> e.name,
                       pad  |-> ColumnPad(col_width, Len(e.name)),
                       col  |-> cs[j]]])

\* src/ls.c print_columns: down then across
print_columns(ents, term_width) ==
    IF Len(ents) = 0 THEN <<>>
    ELSE LET col_width == ColWidth(ents)
             cols      == ColumnCount(term_width, col_width)
             rows      == RowCount(Len(ents), cols)
         IN  [r \in 1..rows |-> ColumnsRow(ents, rows, cols, col_width, r - 1)]

\* if (current + len + 1 > term_width)
AcrossBreak(current, len, term_width) == current + len + 1 > term_width

\* pad = col_width - len; if (pad < 1) pad = 1
AcrossPad(col_width, len) == Max(col_width - len, 1)

\* the loop of print_horizontal from entry i on; cur holds the cells of the
\* line being written, current its width, lines the lines already ended
RECURSIVE AcrossLoop(_, _, _, _, _, _, _)
AcrossLoop(ents, i, term_width, col_width, current, cur, lines) ==
    IF i > Len(ents) THEN Append(lines, RowLine(cur))
    ELSE LET n    == ents[i].name
             len  == Len(n)
             brk  == AcrossBreak(current, len, term_width)
             cur0 == IF brk THEN <<>> ELSE cur
             pad  == AcrossPad(col_width, len)
         IN  AcrossLoop(ents, i + 1, term_width, col_width,
                        (IF brk THEN 0 ELSE current) + len + pad,
                        Append(cur0, [name |-> n, pad |-> pad, col |-> Len(cur0)]),
                        IF brk THEN Append(lines, RowLine(cur)) ELSE lines)

\* src/ls.c print_horizontal: across
print_horizontal(ents, term_width) ==
    IF Len(ents) = 0 THEN <<>>
    ELSE AcrossLoop(ents, 1, term_width, ColWidth(ents), 0, <<>>, <<>>)

\* getpwuid(uid)->pw_name and getgrgid(gid)->gr_name, "unknown" when the id has no entry
\* (the databases hold root, id 0, and one long name, id 1000)
OwnerName(uid) ==
    IF uid = 0 THEN "root" ELSE IF uid = 1000 THEN "administrator" ELSE "unknown"
GroupName(gid) ==
    IF gid = 0 THEN "root" ELSE IF gid = 1000 THEN "developers" ELSE "unknown"

\* strlen of what snprintf("%ld") or ("%lld") writes for a number that is not negative
RECURSIVE Digits(_)
Digits(n) == IF n < 10 THEN 1 ELSE 1 + Digits(n \div 10)

\* the largest of ws as the width loops compute it, from 0
RECURSIVE MaxWidth(_)
MaxWidth(ws) == IF ws = <<>> THEN 0 ELSE Max(Head(ws), MaxWidth(Tail(ws)))

\* the minimum field widths of the format string of src/ls.c: %3ld %-8s %-8s %8lld
FixedWidths == [link |-> 3, owner |-> 8, group |-> 8, size |-> 8]

\* link_w, owner_w, group_w, size_w of src/ls-v1.1.0.c after its first loop
ComputedWidths(ents) ==
    [link  |-> MaxWidth([i \in 1..Len(ents) |-> Digits(ents[i].st.nlink)]),
     owner |-> MaxWidth([i \in 1..Len(ents) |-> Len(OwnerName(ents[i].st.uid))]),
     group |-> MaxWidth([i \in 1..Len(ents) |-> Len(GroupName(ents[i].st.gid))]),
     size  |-> MaxWidth([i \in 1..Len(ents) |-> Digits(ents[i].st.size)])]

\* src/ls.c print_long_listing: one line per entry (localtime decodes every
\* st_mtime a file system hands out)
print_long_listing(ents) ==
    [i \in 1..Len(ents) |->
        LET e == ents[i]
        IN  [k      |-> "long",
             perm   |-> build_perm_string(e.st.mode),
             w      |-> FixedWidths,
             nlink  |-> e.st.nlink,
             owner  |-> OwnerName(e.st.uid),
             group  |-> GroupName(e.st.gid),
             size   |-> e.st.size,
             time   |-> TimeText(e.st.mtime, 0, TRUE),
             name   |-> e.name,
             target |-> IF e.is_link /\ e.link_target # <<>>
                        THEN e.link_target ELSE <<>>]]

\* src/ls-v1.1.0.c print_long_listing
print_long_listing_v110(ents, now) ==
    [i \in 1..Len(ents) |->
        LET e == ents[i]
        IN  [k      |-> "long",
             perm   |-> build_perm_string_v110(e.st.mode),
             w      |-> ComputedWidths(ents),
             nlink  |-> e.st.nlink,
             owner  |-> OwnerName(e.st.uid),
             group  |-> GroupName(e.st.gid),
             size   |-> e.st.size,
             time   |-> TimeText_v110(e.st.mtime, now, TRUE),
             name   |-> e.name,
             target |-> IF e.is_link /\ e.link_target # <<>>
                        THEN e.link_target ELSE <<>>]]

\* src/ls-v1.1.0.c print_simple
print_simple(ents) ==
    [i \in 1..Len(ents) |-> RowLine(<<[name |-> ents[i].name, pad |-> 0, col |-> 0]>>)]

\* the display switch of list_dir (src/ls.c)
Render(ents, mode, term_width) ==
    IF mode = 1 THEN print_long_listing(ents)
    ELSE IF mode = 2 THEN print_horizontal(ents, term_width)
    ELSE print_columns(ents, term_width)

-----------------------------------------------------------------------------
(* One directory listing: the readdir loop pass by pass, then sort and render *)

\* most children of a small directory
MaxChildren == 4
\* most children read after the array is full
MaxTail == 3
\* widest terminal tried besides the default
MaxTermWidth == 12

Child(name, mode, size, mtime, target) ==
    [name |-> name, ok |-> TRUE, rl |-> FALSE, target |-> target, node |-> "",
     st |-> [mode |-> mode, nlink |-> 1, uid |-> 0, gid |-> 0,
             size |-> size, mtime |-> mtime]]

\* "a": a regular file, rw-r--r--
ChildA   == Child(<<97>>, S_IFREG + 420, 5, OneMonth, <<>>)
\* "ab": a setuid executable, rwsr-xr-x, seven months older
ChildAB  == Child(<<97, 98>>, S_IFREG + S_ISUID + 493, 12345, 0, <<>>)
\* "bb": a directory
ChildBB  == Child(<<98, 98>>, S_IFDIR + 493, 4096, SevenMonths, <<>>)
\* "ccc": a symlink to "a"
ChildCCC == Child(<<99, 99, 99>>, S_IFLNK + 511, 1, SevenMonths, <<97>>)
\* ".h": a hidden file
ChildHid == Child(<<DOT, 104>>, S_IFREG + 420, 7, OneMonth, <<>>)

Pool == {ChildA, ChildAB, ChildBB, ChildCCC, ChildHid}

\* what lstat and readlink may answer for a child (a hidden child is asked nothing)
Outcomes(c) ==
    IF IsHidden(c.name) THEN {c}
    ELSE {[c EXCEPT !.ok = FALSE]}
         \cup {[c EXCEPT !.rl = l] :
                  l \in (IF S_ISLNK(c.st.mode) THEN BOOLEAN ELSE {FALSE})}

RECURSIVE WithOutcomes(_)
WithOutcomes(cs) ==
    IF cs = <<>> THEN {<<>>}
    ELSE {<<v>> \o rest : v \in Outcomes(Head(cs)), rest \in WithOutcomes(Tail(cs))}

SmallDirs == UNION {WithOutcomes(cs) : cs \in DistinctSeqs(Pool, MaxChildren)}

\* InitCap regular files "gxy", handed out in descending order: they fill the array
FullPrefix ==
    [i \in 1..InitCap |->
        LET k == InitCap - i
        IN  Child(<<103, 97 + (k \div 8), 97 + (k % 8)>>, S_IFREG + 420, k, OneMonth, <<>>)]

\* the children read into a full array: "z?" files whose lstat may fail
TailChild(j, ok) ==
    [Child(<<122, 96 + j>>, S_IFREG + 420, 100 + j, OneMonth, <<>>) EXCEPT !.ok = ok]

BigDirs ==
    {FullPrefix \o [j \in 1..n |-> TailChild(j, oks[j])] :
        n \in 0..MaxTail, oks \in [1..MaxTail -> BOOLEAN]}

\* most children of a directory whose link counts, owners and sizes vary
MaxWide == 2

\* the link counts, (uid, gid) pairs and sizes lstat reports there
WideLinks  == {1, 1000}
WideOwners == {<<0, 0>>, <<1000, 7>>, <<7, 1000>>}
WideSizes  == {5, 123456789}

\* its children: regular files "b", "c", ...
WideChild(j, nlink, ids, size) ==
    [Child(<<97 + j>>, S_IFREG + 420, size, OneMonth, <<>>)
        EXCEPT !.st.nlink = nlink, !.st.uid = ids[1], !.st.gid = ids[2]]

WideDirs ==
    UNION {{[j \in 1..n |-> WideChild(j, ls[j], os[j], ss[j])] :
               ls \in [1..n -> WideLinks], os \in [1..n -> WideOwners],
               ss \in [1..n -> WideSizes]} : n \in 1..MaxWide}

TermWidths == (1..MaxTermWidth) \cup {TermDefault}

\* time(NULL) at the listing: a month and eight months after the epoch
ListNows == {OneMonth, SevenMonths + OneMonth}

\* the directory being listed: "d"
ListPath == <<100>>

ListInit ==
    /\ ver \in {"ls", "v110"}
    /\ children \in SmallDirs \cup BigDirs \cup WideDirs
    /\ pos = 0
    /\ arr = <<>>
    /\ cap = InitCap
    /\ lpc = "read"
    /\ lmode = 0
    /\ ltermw = 0
    /\ lnow = 0
    /\ lout = <<>>
    /\ lerr = <<>>

ListIdle ==
    /\ ver = "ls" /\ children = <<>> /\ pos = 0 /\ arr = <<>> /\ cap = InitCap
    /\ lpc = "done" /\ lmode = 0 /\ ltermw = 0 /\ lnow = 0
    /\ lout = <<>> /\ lerr = <<>>

\* readdir returns the next child: one pass of the loop
ReadNext ==
    /\ lpc = "read"
    /\ pos < Len(children)
    /\ LET r == ReadStep(ver, [arr |-> arr, cap |-> cap, err |-> lerr],
                         children[pos + 1], ListPath)
       IN  /\ arr' = r.arr
           /\ cap' = r.cap
           /\ lerr' = r.err
    /\ pos' = pos + 1
    /\ UNCHANGED <<ver, children, lpc, lmode, ltermw, lnow, lout>>

\* readdir returns NULL in src/ls.c: list_dir sorts and prints in the chosen mode
ListLs(mode, term_width) ==
    /\ lpc = "read"
    /\ ver = "ls"
    /\ pos = Len(children)
    /\ arr' = qsort(arr)
    /\ lout' = Render(arr', mode, term_width)
    /\ lmode' = mode
    /\ ltermw' = term_width
    /\ lpc' = "done"
    /\ UNCHANGED <<ver, children, pos, cap, lnow, lerr>>

ListLong    == ListLs(1, 0)
ListAcross  == \E w \in TermWidths : ListLs(2, w)
ListColumns == \E w \in TermWidths : ListLs(0, w)

\* readdir returns NULL in src/ls-v1.1.0.c: collect_directory sorts, main prints
ListLongV110 ==
    /\ lpc = "read"
    /\ ver = "v110"
    /\ pos = Len(children)
    /\ arr' = qsort(arr)
    /\ \E now \in ListNows :
         /\ lnow' = now
         /\ lout' = print_long_listing_v110(arr', now)
    /\ lmode' = 1
    /\ lpc' = "done"
    /\ UNCHANGED <<ver, children, pos, cap, ltermw, lerr>>

ListSimpleV110 ==
    /\ lpc = "read"
    /\ ver = "v110"
    /\ pos = Len(children)
    /\ arr' = qsort(arr)
    /\ lout' = print_simple(arr')
    /\ lmode' = 0
    /\ lpc' = "done"
    /\ UNCHANGED <<ver, children, pos, cap, ltermw, lnow, lerr>>

-----------------------------------------------------------------------------
(* The file system the whole program runs on.  Directories are named by an   *)
(* identifier; "C" is the working directory.                                 *)
(*   ./r/        s/  a  d/  l -> .   .h/                                     *)
(*   ./r/d/      y  e/  k -> ../s                                            *)
(*   ./r/d/e/    z  u -> ../..                                               *)
(*   ./r/s/      (empty)                                                     *)
(*   ./r/.h/     q                                                           *)

TreeChild(name, mode, node, target) ==
    [Child(name, mode, 1, OneMonth, target) EXCEPT !.node = node, !.rl = TRUE]

Tree ==
    [C |-> << TreeChild(<<114>>, S_IFDIR + 493, "R", <<>>) >>,
     R |-> << TreeChild(<<115>>, S_IFDIR + 493, "S", <<>>),
              TreeChild(<<97>>, S_IFREG + 420, "", <<>>),
              TreeChild(<<100>>, S_IFDIR + 493, "D", <<>>),
              TreeChild(<<108>>, S_IFLNK + 511, "R", <<DOT>>),
              TreeChild(<<DOT, 104>>, S_IFDIR + 493, "H", <<>>) >>,
     D |-> << TreeChild(<<121>>, S_IFREG + 420, "", <<>>),
              TreeChild(<<101>>, S_IFDIR + 493, "E", <<>>),
              TreeChild(<<107>>, S_IFLNK + 511, "S", <<DOT, DOT, SLASH, 115>>) >>,
     E |-> << TreeChild(<<122>>, S_IFREG + 420, "", <<>>),
              TreeChild(<<117>>, S_IFLNK + 511, "R", <<DOT, DOT, SLASH, DOT, DOT>>) >>,
     S |-> << >>,
     H |-> << TreeChild(<<113>>, S_IFREG + 420, "", <<>>) >>]

DirIds == DOMAIN Tree

\* the children of a directory as this run's lstat answers for them
FsChildren(id) ==
    [j \in 1..Len(Tree[id]) |-> [Tree[id][j] EXCEPT !.ok = (Tree[id][j].name \notin nolstat)]]

\* the components of a path: the pieces between slashes
RECURSIVE Components(_, _)
Components(path, piece) ==
    IF path = <<>> THEN (IF piece = <<>> THEN <<>> ELSE <<piece>>)
    ELSE IF Head(path) = SLASH
         THEN (IF piece = <<>> THEN <<>> ELSE <<piece>>) \o Components(Tail(path), <<>>)
         ELSE Components(Tail(path), Append(piece, Head(path)))

\* path resolution as the kernel does it, following symlinks: the directory a
\* path names, "" when it names none
RECURSIVE Walk(_, _)
Walk(id, comps) ==
    IF id = "" \/ comps = <<>> THEN id
    ELSE IF Head(comps) = <<DOT>> THEN Walk(id, Tail(comps))
    ELSE LET found == {j \in 1..Len(Tree[id]) : Tree[id][j].name = Head(comps)}
         IN  IF found = {} THEN ""
             ELSE Walk(Tree[id][CHOOSE j \in found : TRUE].node, Tail(comps))

Lookup(path) == Walk("C", Components(path, <<>>))

\* opendir(path) succeeds
CanOpen(path) == Lookup(path) # "" /\ Lookup(path) \notin unopen

\* read_dir_entries with a slip: a failed opendir is reported, and an empty
\* array is returned in place of NULL
read_dir_entries_empty_on_failure(path) ==
    IF ~CanOpen(path)
    THEN [ok |-> TRUE, arr |-> <<>>, err |-> <<path>>]
    ELSE LET r == ReadLoop("ls", [arr |-> <<>>, cap |-> InitCap, err |-> <<>>],
                           FsChildren(Lookup(path)), path)
         IN  [ok |-> TRUE, arr |-> r.arr, err |-> r.err]

\* src/ls.c read_dir_entries: NULL and a report when opendir fails, else the array
read_dir_entries(path) ==
    IF ~CanOpen(path)
    THEN [ok |-> FALSE, arr |-> <<>>, err |-> <<path>>]
    ELSE LET r == ReadLoop("ls", [arr |-> <<>>, cap |-> InitCap, err |-> <<>>],
                           FsChildren(Lookup(path)), path)
         IN  [ok |-> TRUE, arr |-> r.arr, err |-> r.err]

\* src/ls.c join_path
join_path(parent, child) ==
    IF parent = <<>> THEN child
    ELSE IF parent[Len(parent)] = SLASH THEN parent \o child
    ELSE parent \o <<SLASH>> \o child

\* RecurseGate with a slip: the type of what a symlink points to decides, as
\* it would had the entry been read with stat
RecurseGate_follows_links(e) ==
    /\ S_ISDIR(e.st.mode) \/ e.is_link
    /\ e.name # <<DOT>>
    /\ e.name # <<DOT, DOT>>

\* S_ISDIR(arr[i].st.st_mode), and the name is neither "." nor ".."
RecurseGate(e) ==
    /\ S_ISDIR(e.st.mode)
    /\ e.name # <<DOT>>
    /\ e.name # <<DOT, DOT>>

Tagged(lines, t, dir) ==
    [j \in 1..Len(lines) |-> [ti |-> t, dir |-> dir, line |-> lines[j]]]

\* list_dir(path) up to its recursion loop: read, sort, header, listing.
\* opened is FALSE when read_dir_entries returned NULL and list_dir returned.
list_dir_head(path) ==
    LET rd == read_dir_entries(path)
    IN  IF ~rd.ok
        THEN [opened |-> FALSE, arr |-> <<>>, lines |-> <<>>, errs |-> rd.err]
        ELSE LET sorted == qsort(rd.arr)
             IN  [opened |-> TRUE,
                  arr    |-> sorted,
                  lines  |-> (IF recursive THEN <<HeaderLine(path)>> ELSE <<>>)
                             \o Render(sorted, wmode, wtermw),
                  errs   |-> rd.err]

\* the frames a call of list_dir(path) leaves on the stack: none when it has
\* already returned (no recursion, or nothing read)
Frames(path, h) ==
    IF h.opened /\ recursive THEN <<[path |-> path, arr |-> h.arr, i |-> 1]>> ELSE <<>>

-----------------------------------------------------------------------------
(* The whole program *)

\* most paths on the command line
MaxArgs == 2
\* most directories opendir fails on, most names lstat fails on
MaxUnopen == 1
MaxNoLstat == 1

\* "r", "r/d/" and "n", which does not exist
ArgPool == { <<114>>, <<114, SLASH, 100, SLASH>>, <<110>> }

RECURSIVE SeqsUpTo(_, _)
SeqsUpTo(S, n) ==
    IF n = 0 THEN {<<>>}
    ELSE LET shorter == SeqsUpTo(S, n - 1)
         IN  shorter \cup {Append(q, x) : q \in {t \in shorter : Len(t) = n - 1}, x \in S}

\* the directories whose opendir may fail, the names whose lstat may fail
OpenVictims  == {"C", "R", "D", "E", "S"}
LstatVictims == { <<100>>, <<97>>, <<101>> }

\* main: the paths given, or "." when none is
Targets == IF args = <<>> THEN << <<DOT>> >> ELSE args

WalkInit ==
    /\ unopen \in {U \in SUBSET OpenVictims : Cardinality(U) <= MaxUnopen}
    /\ nolstat \in {N \in SUBSET LstatVictims : Cardinality(N) <= MaxNoLstat}
    /\ args \in SeqsUpTo(ArgPool, MaxArgs)
    /\ wmode \in {0, 1, 2}
    /\ recursive \in BOOLEAN
    /\ wtermw = TermDefault
    /\ ti = 0
    /\ stack = <<>>
    /\ visited = <<>>
    /\ out = <<>>
    /\ err = <<>>
    /\ wpc = "main"
    /\ steps = 0

WalkIdle ==
    /\ unopen = {} /\ nolstat = {} /\ args = <<>> /\ wmode = 0
    /\ recursive = FALSE /\ wtermw = TermDefault /\ ti = 0 /\ stack = <<>>
    /\ visited = <<>> /\ out = <<>> /\ err = <<>> /\ wpc = "done" /\ steps = 0

Top == stack[Len(stack)]

\* main hands the next target to list_dir, after a blank line unless it is the first
MainCall ==
    /\ wpc = "main"
    /\ stack = <<>>
    /\ ti < Len(Targets)
    /\ LET t    == ti + 1
           path == Targets[t]
           h    == list_dir_head(path)
       IN  /\ ti' = t
           /\ out' = out \o (IF t > 1 THEN Tagged(<<BlankLine>>, t, <<>>) ELSE <<>>)
                         \o Tagged(h.lines, t, path)
           /\ err' = err \o h.errs
           /\ stack' = Frames(path, h)
           /\ visited' = Append(visited, [ti |-> t, path |-> path])
    /\ steps' = steps + 1
    /\ UNCHANGED <<unopen, nolstat, args, wmode, recursive, wtermw, wpc>>

\* main returns 0
MainReturn ==
    /\ wpc = "main"
    /\ stack = <<>>
    /\ ti = Len(Targets)
    /\ wpc' = "done"
    /\ steps' = steps + 1
    /\ UNCHANGED <<unopen, nolstat, args, wmode, recursive, wtermw, ti, stack,
                   visited, out, err>>

\* the recursion loop of list_dir at a directory entry: a blank line, then list_dir
\* on the child path
Descend ==
    /\ wpc = "main"
    /\ stack # <<>>
    /\ Top.i <= Len(Top.arr)
    /\ RecurseGate(Top.arr[Top.i])
    /\ LET child == join_path(Top.path, Top.arr[Top.i].name)
           h     == list_dir_head(child)
       IN  /\ out' = out \o Tagged(<<BlankLine>>, ti, Top.path)
                         \o Tagged(h.lines, ti, child)
           /\ err' = err \o h.errs
           /\ stack' = [stack EXCEPT ![Len(stack)].i = Top.i + 1] \o Frames(child, h)
           /\ visited' = Append(visited, [ti |-> ti, path |-> child])
    /\ steps' = steps + 1
    /\ UNCHANGED <<unopen, nolstat, args, wmode, recursive, wtermw, ti, wpc>>

\* the recursion loop at an entry that is no directory
SkipEntry ==
    /\ wpc = "main"
    /\ stack # <<>>
    /\ Top.i <= Len(Top.arr)
    /\ ~RecurseGate(Top.arr[Top.i])
    /\ stack' = [stack EXCEPT ![Len(stack)].i = Top.i + 1]
    /\ steps' = steps + 1
    /\ UNCHANGED <<unopen, nolstat, args, wmode, recursive, wtermw, ti, visited,
                   out, err, wpc>>

\* the recursion loop is over: list_dir frees the array and returns
Return ==
    /\ wpc = "main"
    /\ stack # <<>>
    /\ Top.i > Len(Top.arr)
    /\ stack' = SubSeq(stack, 1, Len(stack) - 1)
    /\ steps' = steps + 1
    /\ UNCHANGED <<unopen, nolstat, args, wmode, recursive, wtermw, ti, visited,
                   out, err, wpc>>

-----------------------------------------------------------------------------
(* Specifications *)

\* the whole program of src/ls.c
Init == PermIdle /\ TimeIdle /\ ListIdle /\ WalkInit

Next ==
    \/ MainCall /\ UNCHANGED <<permVars, timeVars, listVars>>
    \/ MainReturn /\ UNCHANGED <<permVars, timeVars, listVars>>
    \/ Descend /\ UNCHANGED <<permVars, timeVars, listVars>>
    \/ SkipEntry /\ UNCHANGED <<permVars, timeVars, listVars>>
    \/ Return /\ UNCHANGED <<permVars, timeVars, listVars>>

Spec == Init /\ [][Next]_vars

\* one directory listing, either version
InitList == PermIdle /\ TimeIdle /\ ListInit /\ WalkIdle

NextList ==
    \/ ReadNext /\ UNCHANGED <<permVars, timeVars, walkVars>>
    \/ ListLong /\ UNCHANGED <<permVars, timeVars, walkVars>>
    \/ ListAcross /\ UNCHANGED <<permVars, timeVars, walkVars>>
    \/ ListColumns /\ UNCHANGED <<permVars, timeVars, walkVars>>
    \/ ListLongV110 /\ UNCHANGED <<permVars, timeVars, walkVars>>
    \/ ListSimpleV110 /\ UNCHANGED <<permVars, timeVars, walkVars>>

SpecList == InitList /\ [][NextList]_vars

\* the permission encoder on every mode
InitPerm == PermInit /\ TimeIdle /\ ListIdle /\ WalkIdle

NextPerm ==
    \/ BuildPermLs /\ UNCHANGED <<timeVars, listVars, walkVars>>
    \/ BuildPermV110 /\ UNCHANGED <<timeVars, listVars, walkVars>>

SpecPerm == InitPerm /\ [][NextPerm]_vars

\* the timestamp of a long-format line
InitTime == PermIdle /\ TimeInit /\ ListIdle /\ WalkIdle

NextTime ==
    \/ FormatTimeLs /\ UNCHANGED <<permVars, listVars, walkVars>>
    \/ FormatTimeV110 /\ UNCHANGED <<permVars, listVars, walkVars>>

SpecTime == InitTime /\ [][NextTime]_vars

-----------------------------------------------------------------------------
(* Vocabulary of the properties *)

\* the names a line shows
LineNames(line) ==
    IF line.k = "row" THEN [j \in 1..Len(line.cells) |-> line.cells[j].name]
    ELSE IF line.k = "long" THEN <<line.name>>
    ELSE <<>>

\* the names a sequence of lines shows, in order
EmittedNames(lines) == Flatten([i \in 1..Len(lines) |-> LineNames(lines[i])])

\* how many times x occurs in s
Occurrences(s, x) == Cardinality({i \in 1..Len(s) : s[i] = x})

\* the printed width of a line of cells
LineWidth(line) ==
    SumSeq([j \in 1..Len(line.cells) |-> Len(line.cells[j].name) + line.cells[j].pad])

\* the names of the children that are not hidden and whose lstat succeeds
ResolvedNames(cs) ==
    {cs[i].name : i \in {j \in 1..Len(cs) : cs[j].name[1] # 46 /\ cs[j].ok}}

AllNames(cs) == {cs[i].name : i \in 1..Len(cs)}

LongestName(ents) ==
    CHOOSE n \in {Len(ents[i].name) : i \in 1..Len(ents)} :
        \A i \in 1..Len(ents) : Len(ents[i].name) <= n

-----------------------------------------------------------------------------
(* C1 *)

\* C1: in the across renderer, when the terminal is at least one column wide,
\* a line is broken before an entry exactly when one more column would not fit:
\* every line is at most terminalWidth wide, and a line is ended only when
\* another column (max name length + 2) would have passed terminalWidth.
C1_AcrossLinesFit ==
    (lpc = "done" /\ ver = "ls" /\ lmode = 2 /\ arr # <<>>
        /\ ltermw >= LongestName(arr) + 2)
    => /\ \A i \in 1..Len(lout) : LineWidth(lout[i]) <= ltermw
       /\ \A i \in 2..Len(lout) :
             LineWidth(lout[i - 1]) + LongestName(arr) + 2 > ltermw

-----------------------------------------------------------------------------
(* C2 *)

ExpectedExec(m, special, exec, lower, upper) ==
    IF Has(m, special) /\ Has(m, exec) THEN lower
    ELSE IF Has(m, special) THEN upper
    ELSE IF Has(m, exec) THEN "x"
    ELSE "-"

\* C2: the permission string has 10 characters; position 4 is s/S/x/- by
\* setuid and owner-execute, position 7 by setgid and group-execute,
\* position 10 is t/T/x/- by sticky and other-execute; a regular file
\* rwx r-x r-- without special bits gives "-rwxr-xr--".
C2_SpecialBitsEncoded ==
    pout.ver # "none"
    => /\ Len(pout.s) = 10
       /\ pout.s[4] = ExpectedExec(pmode, 2048, 64, "s", "S")
       /\ pout.s[7] = ExpectedExec(pmode, 1024, 8, "s", "S")
       /\ pout.s[10] = ExpectedExec(pmode, 512, 1, "t", "T")
       /\ (pmode = 32768 + 492
             => pout.s = <<"-", "r", "w", "x", "r", "-", "x", "r", "-", "-">>)

\* the same of the earlier version alone, which does encode the special bits
PermV110Conforms ==
    pout.ver = "v110"
    => /\ Len(pout.s) = 10
       /\ pout.s[4] = ExpectedExec(pmode, 2048, 64, "s", "S")
       /\ pout.s[7] = ExpectedExec(pmode, 1024, 8, "s", "S")
       /\ pout.s[10] = ExpectedExec(pmode, 512, 1, "t", "T")

-----------------------------------------------------------------------------
(* C3 *)

AbsDiff(a, b) == IF a >= b THEN a - b ELSE b - a

\* C3: a decodable modification time further than 6*30*24*3600 seconds from
\* now, either way, is shown as "Mon DD  YYYY", any other as "Mon DD HH:MM".
C3_SixMonthRule ==
    (tout.ver # "none" /\ tdec)
    => tout.fmt = (IF AbsDiff(tmtime, tnow) > 6 * 30 * 24 * 3600
                   THEN "%b %e  %Y" ELSE "%b %e %H:%M")

\* the same of the earlier version alone, which does apply the rule
TimeV110Conforms ==
    (tout.ver = "v110" /\ tdec)
    => tout.fmt = (IF AbsDiff(tmtime, tnow) > 6 * 30 * 24 * 3600
                   THEN "%b %e  %Y" ELSE "%b %e %H:%M")

-----------------------------------------------------------------------------
(* C4 *)

\* C4: in every mode and at every terminal width, one listing shows exactly
\* the children that are not hidden and whose metadata was resolved, each
\* once: none twice, none left out, no other name.
C4_NamesExactlyOnce ==
    (lpc = "done" /\ ver = "ls")
    => \A n \in AllNames(children) \cup Range(EmittedNames(lout)) :
          Occurrences(EmittedNames(lout), n)
              = (IF n \in ResolvedNames(children) THEN 1 ELSE 0)

\* a column listing of several rows from a directory that also holds a hidden
\* child and a child whose lstat failed
C4_Witness ==
    /\ lpc = "done" /\ ver = "ls" /\ lmode = 0
    /\ Len(lout) >= 2
    /\ \E i \in 1..Len(children) : children[i].name[1] = 46
    /\ \E i \in 1..Len(children) : children[i].name[1] # 46 /\ ~children[i].ok

-----------------------------------------------------------------------------
(* C5 *)

\* the least r with r * cols >= count
CeilDiv(count, cols) ==
    CHOOSE r \in 0..count : r * cols >= count /\ (r = 0 \/ (r - 1) * cols < count)

\* C5: with columnWidth = longest name + 2, columns = max(1, terminalWidth
\* div columnWidth) and rows = ceil(count / columns), the down-then-across
\* listing has rows lines; entry i (from 0) is cell i div rows of line
\* i mod rows, padded to columnWidth; the cells of a line are its first
\* columns without a gap, and cell (row, col) is entry col * rows + row.
C5_ColumnMajorCells ==
    (lpc = "done" /\ ver = "ls" /\ lmode = 0 /\ arr # <<>>)
    => LET count   == Len(arr)
           width   == LongestName(arr) + 2
           columns == IF ltermw \div width < 1 THEN 1 ELSE ltermw \div width
           rows    == CeilDiv(count, columns)
       IN  /\ Len(lout) = rows
           /\ \A i \in 0..(count - 1) :
                 LET line == lout[(i % rows) + 1]
                 IN  /\ Len(line.cells) >= (i \div rows) + 1
                     /\ line.cells[(i \div rows) + 1].name = arr[i + 1].name
                     /\ line.cells[(i \div rows) + 1].pad = width - Len(arr[i + 1].name)
           /\ \A r \in 1..Len(lout) : \A j \in 1..Len(lout[r].cells) :
                 /\ lout[r].cells[j].col = j - 1
                 /\ lout[r].cells[j].col < columns
                 /\ (j - 1) * rows + (r - 1) < count
                 /\ lout[r].cells[j].name = arr[(j - 1) * rows + (r - 1) + 1].name

\* a listing of two lines whose last line is one cell short: an empty cell at
\* the end of a row
C5_Witness ==
    /\ lpc = "done" /\ ver = "ls" /\ lmode = 0
    /\ Len(lout) = 2
    /\ Len(lout[1].cells) = 2
    /\ Len(lout[2].cells) = 1

-----------------------------------------------------------------------------
(* C7 *)

\* C7: a failed lstat is local.  At every point of the read, in both
\* versions, every child read so far that is not hidden and whose own lstat
\* succeeded is in the array exactly once, with its own name and metadata,
\* wherever the failing children stand; the array never outgrows its
\* allocation, and the read goes on to the end of the directory.
C7_LstatFailureIsLocal ==
    /\ \A i \in 1..pos :
         (children[i].name[1] # 46 /\ children[i].ok)
         => Cardinality({j \in 1..Len(arr) :
                            /\ arr[j].name = children[i].name
                            /\ arr[j].st = children[i].st}) = 1
    /\ Len(arr) <= cap
    /\ (lpc = "read" /\ pos < Len(children)) => ENABLED ReadNext
    /\ lpc = "done" => pos = Len(children)

\* the lstat of the first child read into the freshly grown array failed, and
\* a later child was stored
C7_Witness ==
    /\ lpc = "done" /\ ver = "ls"
    /\ Len(children) > InitCap + 1
    /\ ~children[InitCap + 1].ok
    /\ cap = 2 * InitCap
    /\ Len(arr) > InitCap

-----------------------------------------------------------------------------
(* C10 *)

\* the child an entry was built from
ChildOf(e) == children[CHOOSE i \in 1..Len(children) : children[i].name = e.name]

\* C10 as claimed: every entry has a name, and its link target is set if and
\* only if it is flagged a symlink
C10_TargetIffSymlink ==
    \A j \in 1..Len(arr) :
        /\ arr[j].name # <<>>
        /\ (arr[j].link_target # <<>>) <=> arr[j].is_link

\* C10 amended: every entry has a name; it is flagged a symlink exactly when
\* its lstat succeeded and reported a symlink; and its link target is set if
\* and only if it is flagged a symlink and the link-target read succeeded.
C10_TargetIffSymlinkRead ==
    \A j \in 1..Len(arr) :
        /\ arr[j].name # <<>>
        /\ arr[j].is_link <=> (ChildOf(arr[j]).ok
                                /\ (ChildOf(arr[j]).st.mode \div 4096) % 16 = 10)
        /\ (arr[j].link_target # <<>>) <=> (arr[j].is_link /\ ChildOf(arr[j]).rl)
        /\ arr[j].link_target # <<>> => arr[j].link_target = ChildOf(arr[j]).target

\* a finished read holding a symlink whose target could not be read
C10_Witness ==
    /\ lpc = "done"
    /\ \E j \in 1..Len(arr) : arr[j].is_link /\ arr[j].link_target = <<>>
    /\ \E i \in 1..Len(children) : children[i].name[1] # 46 /\ ~children[i].ok

-----------------------------------------------------------------------------
(* C6 *)

\* the lines list_dir(path) wrote for target t
LinesOf(t, path) ==
    SelectSeq(out, LAMBDA o : o.ti = t /\ o.dir = path)

PlainLines(tagged) == [j \in 1..Len(tagged) |-> tagged[j].line]

\* the listing proper of a tagged section: what follows the header and
\* precedes the blank line of the first descent
RECURSIVE UpToBlank(_)
UpToBlank(lines) ==
    IF lines = <<>> \/ Head(lines).k = "blank" THEN <<>>
    ELSE <<Head(lines)>> \o UpToBlank(Tail(lines))

\* C6: a target that cannot be opened is reported and gets no header and no
\* entry; every other target, before or after it, is listed in full: under
\* its header when recursing, every child that is not hidden and was
\* resolved, once.
C6_UnopenableTargetSkipped ==
    /\ \A t \in 1..ti :
         ~CanOpen(Targets[t])
         => /\ Occurrences(err, Targets[t]) >= 1
            /\ \A i \in 1..Len(out) : out[i].dir # Targets[t]
    /\ wpc = "done"
       => \A t \in 1..Len(Targets) :
            CanOpen(Targets[t])
            => LET lines == PlainLines(LinesOf(t, Targets[t]))
                   names == EmittedNames(UpToBlank(lines))
                   cs    == FsChildren(Lookup(Targets[t]))
               IN  /\ recursive => (lines # <<>> /\ lines[1].k = "header"
                                     /\ lines[1].path = Targets[t])
                   /\ \A n \in AllNames(cs) \cup Range(names) :
                         Occurrences(names, n)
                             = (IF n \in ResolvedNames(cs) THEN 1 ELSE 0)

\* a finished run over two targets, the first unopenable, the second listed
C6_Witness ==
    /\ wpc = "done"
    /\ Len(args) = 2
    /\ ~CanOpen(args[1])
    /\ CanOpen(args[2])
    /\ EmittedNames(PlainLines(LinesOf(2, args[2]))) # <<>>

-----------------------------------------------------------------------------
(* C8 *)

\* C8: with recursion, the output of one target is a sequence of sections,
\* each a header and its listing, with exactly one blank line between a
\* section and the next header: it starts with a header, and every later
\* header follows one blank line, which follows a line that is not blank.
C8_OneBlankBetweenSections ==
    (wpc = "done" /\ recursive /\ Len(Targets) = 1 /\ CanOpen(Targets[1]))
    => LET lines == PlainLines(out)
       IN  /\ lines # <<>> /\ lines[1].k = "header"
           /\ \A i \in 2..Len(lines) :
                 lines[i].k = "header"
                 => /\ lines[i - 1].k = "blank"
                    /\ lines[i - 2].k # "blank"

-----------------------------------------------------------------------------
(* C9 *)

\* the directories a walk from directory id must visit: id, and through every
\* directory it can open, the real directories among its children that are
\* not hidden and that lstat resolves
RECURSIVE Reach(_)
Reach(id) ==
    IF id \in unopen THEN {id}
    ELSE {id} \cup UNION { Reach(Tree[id][j].node) :
                              j \in {k \in 1..Len(Tree[id]) :
                                        /\ Tree[id][k].name[1] # 46
                                        /\ Tree[id][k].name \notin nolstat
                                        /\ (Tree[id][k].st.mode \div 4096) % 16 = 4} }

\* the directories list_dir was called on for target t, in call order
VisitedIds(t) ==
    LET vs == SelectSeq(visited, LAMBDA v : v.ti = t)
    IN  [j \in 1..Len(vs) |-> Lookup(vs[j].path)]

WalkOver(t) == t < ti \/ (t = ti /\ stack = <<>>)

\* A symlink to a directory is listed and never entered.  With
\* recursion, the walk of a target calls list_dir once on each directory
\* reachable through real, non-hidden directory entries and on no other,
\* symlinks back to an ancestor included; the call stack never holds a
\* directory twice.
C9_WalkVisitsOnce ==
    /\ \A t \in 1..ti :
         LET ids == VisitedIds(t)
             top == Lookup(Targets[t])
         IN  /\ \A i, j \in 1..Len(ids) : i # j => ids[i] # ids[j]
             /\ top # "" => Range(ids) \subseteq Reach(top)
             /\ (top # "" /\ recursive /\ WalkOver(t)) => Range(ids) = Reach(top)
    /\ \A i \in 1..Len(visited) :
         \A c \in Range(Components(visited[i].path, <<>>)) :
             c \notin {<<108>>, <<107>>, <<117>>}
    /\ Len(stack) <= Cardinality(DirIds)

\* The steps a call of list_dir on directory id still takes after its listing:
\* one per entry, one to return, and the same for every real directory among
\* the entries from index i on that can be opened.
RECURSIVE StepsIn(_)
RECURSIVE StepsFrom(_, _, _)
StepsIn(id) ==
    IF id = "" \/ id \in unopen \/ ~recursive THEN 0
    ELSE 1 + StepsFrom(id, qsort(ReadLoop("ls", [arr |-> <<>>, cap |-> InitCap, err |-> <<>>],
                                          FsChildren(id), <<>>).arr), 1)
StepsFrom(id, ents, i) ==
    IF i > Len(ents) THEN 0
    ELSE 1 + (IF (ents[i].st.mode \div 4096) % 16 = 4
              THEN StepsIn(Tree[id][CHOOSE j \in 1..Len(Tree[id]) :
                                       Tree[id][j].name = ents[i].name].node)
              ELSE 0)
           + StepsFrom(id, ents, i + 1)

\* the steps the program still takes
StepsLeft ==
    (IF wpc = "main" THEN 1 ELSE 0)
    + SumSeq([t \in 1..(Len(Targets) - ti) |-> 1 + StepsIn(Lookup(Targets[ti + t]))])
    + SumSeq([f \in 1..Len(stack) |->
                1 + StepsFrom(Lookup(stack[f].path), stack[f].arr, stack[f].i)])

\* the steps of the whole run, from the command line and the file system alone
StepsInAll ==
    1 + SumSeq([t \in 1..Len(Targets) |-> 1 + StepsIn(Lookup(Targets[t]))])

\* C9: the walk visits every reachable directory once and no other, and it
\* terminates: every step leaves one step less to take, the steps taken and
\* the steps left always adding up to a total the file tree fixes.
C9_WalkVisitsOnceAndEnds ==
    /\ C9_WalkVisitsOnce
    /\ steps + StepsLeft = StepsInAll
    /\ (wpc = "done" <=> StepsLeft = 0)

\* a finished recursive walk that went two levels down, past the symlinks of
\* every directory on the way, one of them back to an ancestor
C9_Witness ==
    /\ wpc = "done" /\ recursive
    /\ \E i \in 1..Len(visited) : Lookup(visited[i].path) = "E"
    /\ \E i \in 1..Len(out) :
         /\ out[i].line.k = "row"
         /\ <<117>> \in Range(LineNames(out[i].line))

-----------------------------------------------------------------------------
(* C11 *)

\* the characters printf writes for a field of len characters under a minimum
\* field width: the field is padded up to the width, never cut down to it
FieldWidth(min, len) == Max(min, len)

\* the offsets in a long-format line at which the owner, group, size and time
\* columns begin (the link-count column begins after the permission string)
FieldStarts(line) ==
    LET owner == Len(line.perm) + 1 + FieldWidth(line.w.link, Digits(line.nlink)) + 1
        group == owner + FieldWidth(line.w.owner, Len(line.owner)) + 1
        size  == group + FieldWidth(line.w.group, Len(line.group)) + 1
        time  == size + FieldWidth(line.w.size, Digits(line.size)) + 1
    IN  <<owner, group, size, time>>

LongAligned ==
    \A i \in 1..Len(lout) : \A j \in 1..Len(lout) :
        FieldStarts(lout[i]) = FieldStarts(lout[j])

\* C11: the long-format renderer pads the link-count, owner, group and size
\* fields of every line to the widest of the whole entry set, so each field
\* begins at the same character offset on every line of a listing, whatever
\* the lengths of the names and numbers.
C11_LongFieldsAligned ==
    (lpc = "done" /\ lmode = 1) => LongAligned

\* the same of src/ls-v1.1.0.c alone, with the widths of its first pass: each
\* is the widest printed value of the set
LongV110Conforms ==
    (lpc = "done" /\ lmode = 1 /\ ver = "v110")
    => /\ LongAligned
       /\ \A i \in 1..Len(lout) :
             /\ lout[i].w = ComputedWidths(arr)
             /\ \E j \in 1..Len(arr) : lout[i].w.size = Digits(arr[j].st.size)
             /\ \E j \in 1..Len(arr) : lout[i].w.owner = Len(OwnerName(arr[j].st.uid))

\* v1.1.0 has listed entries whose sizes, owners and link counts differ in width
LongV110Witness ==
    /\ lpc = "done" /\ lmode = 1 /\ ver = "v110" /\ Len(lout) = 2
    /\ Digits(lout[1].size) > 8 /\ Digits(lout[2].size) = 1
    /\ Len(lout[1].owner) = 4 /\ Len(lout[2].owner) > 8
    /\ Digits(lout[1].nlink) = 1 /\ Digits(lout[2].nlink) = 4

====
